---- MODULE Spec2Model ----
(***************************************************************************)
(* Model of the upload page src/index3.html: the drag-and-drop and file    *)
(* selection handlers, the asynchronous submit handler of #uploadForm, and *)
(* displayResults, which projects a JSON payload onto the result table and *)
(* the summary.                                                            *)
(*                                                                         *)
(* JavaScript strings are sequences of one-character strings, so that      *)
(* template literals, parseInt and the `||` fallbacks are computed the way *)
(* the script computes them. A fixed message of the page (a Thai literal   *)
(* of the script) is a string of one symbol that names it.                 *)
(***************************************************************************)
EXTENDS Integers, Sequences, FiniteSets

(***************************************************************************)
(* Bounds of the model.                                                    *)
(***************************************************************************)
\* longest reference_code array of a generated payload
MaxRefs == 2
\* longest glass_data array of a generated payload
MaxGlass == 2
\* number of submissions of the form in one behaviour
MaxSubmits == 2

(***************************************************************************)
(* JavaScript values as they arrive in the JSON response: undefined (a     *)
(* missing property), a string, or an integer number.                      *)
(***************************************************************************)
Undefined == [t |-> "undefined", s |-> <<>>, n |-> 0]
Str(cs) == [t |-> "string", s |-> cs, n |-> 0]
Num(k) == [t |-> "number", s |-> <<>>, n |-> k]

DecDigits == <<"0", "1", "2", "3", "4", "5", "6", "7", "8", "9">>
HexLower == <<"0", "1", "2", "3", "4", "5", "6", "7", "8", "9", "a", "b", "c", "d", "e", "f">>
HexUpper == <<"0", "1", "2", "3", "4", "5", "6", "7", "8", "9", "A", "B", "C", "D", "E", "F">>

\* Number::toString for an integer, radix 10
RECURSIVE NatToString(_)
NatToString(k) ==
    IF k < 10 THEN <<DecDigits[k + 1]>>
    ELSE NatToString(k \div 10) \o <<DecDigits[(k % 10) + 1]>>

NumberToString(k) == IF k < 0 THEN <<"-">> \o NatToString(-k) ELSE NatToString(k)

\* ToString, as applied by a template literal `${v}`
ToString(v) ==
    CASE v.t = "undefined" -> <<"u", "n", "d", "e", "f", "i", "n", "e", "d">>
      [] v.t = "string" -> v.s
      [] v.t = "number" -> NumberToString(v.n)

\* ToBoolean, as applied by `||`, `!` and `if`
ToBoolean(v) ==
    CASE v.t = "undefined" -> FALSE
      [] v.t = "string" -> Len(v.s) > 0
      [] v.t = "number" -> v.n # 0

\* a || b
Or(a, b) == IF ToBoolean(a) THEN a ELSE b

\* the setter of Node.textContent: null and undefined give the empty string
TextContent(v) == IF v.t = "undefined" THEN <<>> ELSE ToString(v)

(***************************************************************************)
(* parseInt(v) with no radix argument: ToString, skip leading white space, *)
(* an optional sign, an optional 0x prefix, then the longest prefix of     *)
(* digits of the radix. NaN when there is no digit.                        *)
(***************************************************************************)
IsWhiteSpace(c) == c \in {" ", "\t", "\n"}

RECURSIVE TrimStart(_)
TrimStart(cs) ==
    IF cs # <<>> /\ IsWhiteSpace(Head(cs)) THEN TrimStart(Tail(cs)) ELSE cs

DigitValue(c, radix) ==
    LET lo == {i \in 1..radix : HexLower[i] = c}
        up == {i \in 1..radix : HexUpper[i] = c}
    IN  IF lo \cup up = {} THEN -1 ELSE (CHOOSE i \in lo \cup up : TRUE) - 1

RECURSIVE ParseDigits(_, _, _, _)
ParseDigits(cs, radix, seen, acc) ==
    IF cs # <<>> /\ DigitValue(Head(cs), radix) >= 0
    THEN ParseDigits(Tail(cs), radix, TRUE, acc * radix + DigitValue(Head(cs), radix))
    ELSE [nan |-> ~seen, n |-> acc]

ParseInt(v) ==
    LET s0 == TrimStart(ToString(v))
        neg == s0 # <<>> /\ Head(s0) = "-"
        s1 == IF s0 # <<>> /\ Head(s0) \in {"-", "+"} THEN Tail(s0) ELSE s0
        hex == Len(s1) >= 2 /\ s1[1] = "0" /\ s1[2] \in {"x", "X"}
        s2 == IF hex THEN Tail(Tail(s1)) ELSE s1
        r == ParseDigits(s2, IF hex THEN 16 ELSE 10, FALSE, 0)
    IN  [nan |-> r.nan, n |-> IF neg THEN -r.n ELSE r.n]

\* parseInt(v) || 0: NaN and 0 are both falsy
ParseIntOrZero(v) ==
    LET p == ParseInt(v) IN IF p.nan \/ p.n = 0 THEN 0 ELSE p.n

(***************************************************************************)
(* displayResults(data), lines 594-695.                                    *)
(*                                                                         *)
(* An optional array of the payload is [t |-> "undefined"] or              *)
(* [t |-> "array", items |-> <<...>>]. A reference entry is                *)
(* [page, No, Reference_Code], a glass entry [ref_no, ref_code, GW, GH,    *)
(* Qty], every field a JavaScript value.                                   *)
(***************************************************************************)
NoArray == [t |-> "undefined", items |-> <<>>]
Array(items) == [t |-> "array", items |-> items]

\* RefKey built from the number alone, the code left out
RefKeyNumberOnly(a, b) == ToString(a) \o <<"-">>

\* `${a}-${b}`, the composite key of lines 607, 619 and 648
RefKey(a, b) == ToString(a) \o <<"-">> \o ToString(b)

\* glass.GW || glass.GH || glass.Qty, lines 611 and 653
HasGlassData(glass) ==
    ToBoolean(glass.GW) \/ ToBoolean(glass.GH) \/ ToBoolean(glass.Qty)

\* the body of the forEach of lines 606-614, applied to the object glassByRef
GroupOne(glassByRef, glass) ==
    LET refKey == RefKey(glass.ref_no, glass.ref_code)
        created == [k \in DOMAIN glassByRef \cup {refKey} |->
                       IF k \in DOMAIN glassByRef THEN glassByRef[k] ELSE <<>>]
    IN  IF HasGlassData(glass)
        THEN [created EXCEPT ![refKey] = Append(@, glass)]
        ELSE created

RECURSIVE GroupGlass(_, _)
GroupGlass(items, glassByRef) ==
    IF items = <<>> THEN glassByRef
    ELSE GroupGlass(Tail(items), GroupOne(glassByRef, Head(items)))

\* glassByRef after lines 604-615
GlassByRef(data) ==
    IF data.glass_data.t = "array"
    THEN GroupGlass(data.glass_data.items, [k \in {} |-> <<>>])
    ELSE [k \in {} |-> <<>>]

\* the filter predicate of lines 618-621
RefHasGlass(ref, glassByRef) ==
    LET refKey == RefKey(ref.No, ref.Reference_Code)
    IN  refKey \in DOMAIN glassByRef /\ Len(glassByRef[refKey]) > 0

ReferencesWithGlass(data, glassByRef) ==
    SelectSeq(data.reference_code.items, LAMBDA ref : RefHasGlass(ref, glassByRef))

\* one <tr> of lines 658-668: the text of its seven cells
TableRow(rowIndex, ref, glass) ==
    [index |-> NumberToString(rowIndex),
     page |-> ToString(ref.page),
     No |-> ToString(ref.No),
     Reference_Code |-> ToString(ref.Reference_Code),
     GW |-> ToString(Or(glass.GW, Str(<<"-">>))),
     GH |-> ToString(Or(glass.GH, Str(<<"-">>))),
     Qty |-> ToString(Or(glass.Qty, Str(<<"-">>)))]

\* AddGlassRow with the record counted only when its quantity is not zero
AddGlassRowCountsQty(st, ref, glass) ==
    IF HasGlassData(glass)
    THEN [rowIndex |-> st.rowIndex + 1,
          totalGlassCount |-> st.totalGlassCount + ParseIntOrZero(glass.Qty),
          totalRecords |-> st.totalRecords + IF ParseIntOrZero(glass.Qty) # 0 THEN 1 ELSE 0,
          rows |-> Append(st.rows, TableRow(st.rowIndex, ref, glass))]
    ELSE st

\* the body of the inner forEach, lines 651-671, on the loop's variables
AddGlassRow(st, ref, glass) ==
    IF HasGlassData(glass)
    THEN [rowIndex |-> st.rowIndex + 1,
          totalGlassCount |-> st.totalGlassCount + ParseIntOrZero(glass.Qty),
          totalRecords |-> st.totalRecords + 1,
          rows |-> Append(st.rows, TableRow(st.rowIndex, ref, glass))]
    ELSE st

RECURSIVE GlassLoop(_, _, _)
GlassLoop(st, ref, glasses) ==
    IF glasses = <<>> THEN st
    ELSE GlassLoop(AddGlassRow(st, ref, Head(glasses)), ref, Tail(glasses))

\* the outer forEach of lines 646-673
RECURSIVE RefLoop(_, _, _)
RefLoop(st, refs, glassByRef) ==
    IF refs = <<>> THEN st
    ELSE LET ref == Head(refs)
             refKey == RefKey(ref.No, ref.Reference_Code)
             next == IF refKey \in DOMAIN glassByRef
                     THEN GlassLoop(st, ref, glassByRef[refKey])
                     ELSE st
         IN  RefLoop(next, Tail(refs), glassByRef)

\* lines 625-626 and 645
LoopStart == [rowIndex |-> 1, totalGlassCount |-> 0, totalRecords |-> 0, rows |-> <<>>]

(***************************************************************************)
(* The five elements displayResults writes, as one record `els`:           *)
(* summarySection (shown or not), the text of totalGlass, totalRecords     *)
(* and totalReferences, and the content of referenceData. The result is    *)
(* the elements after the call; the elements a branch does not write keep  *)
(* what they held.                                                         *)
(***************************************************************************)
DisplayResults(data, els) ==
    IF data.reference_code.t = "array" /\ Len(data.reference_code.items) > 0
    THEN LET glassByRef == GlassByRef(data)
             referencesWithGlass == ReferencesWithGlass(data, glassByRef)
             st == RefLoop(LoopStart, referencesWithGlass, glassByRef)
         IN  IF Len(referencesWithGlass) > 0
             THEN [summarySection |-> TRUE,
                   totalGlass |-> NumberToString(st.totalGlassCount),
                   totalRecords |-> NumberToString(st.totalRecords),
                   totalReferences |-> TextContent(data.total_references),
                   referenceData |-> [kind |-> "table", rows |-> st.rows]]
             ELSE [els EXCEPT !.summarySection = FALSE,
                              !.referenceData = [kind |-> "noGlass", rows |-> <<>>]]
    ELSE [els EXCEPT !.summarySection = FALSE,
                     !.referenceData = [kind |-> "noData", rows |-> <<>>]]

(***************************************************************************)
(* The payloads.                                                           *)
(***************************************************************************)
CodeA == Str(<<"A">>)
Dash == <<"-">>

\* data.product_messages: missing, an array of messages, or (malformed) a string
NoMessages == [t |-> "undefined", items |-> <<>>]

Data(refs, glass, total, msgs) ==
    [t |-> "object", reference_code |-> refs, glass_data |-> glass,
     total_references |-> total, product_messages |-> msgs]

\* result.data missing from the response body
NoData ==
    [t |-> "undefined", reference_code |-> NoArray, glass_data |-> NoArray,
     total_references |-> Undefined, product_messages |-> NoMessages]

Ref(page, no, code) == [page |-> page, No |-> no, Reference_Code |-> code]
Glass(no, code, gw, gh, qty) ==
    [ref_no |-> no, ref_code |-> code, GW |-> gw, GH |-> gh, Qty |-> qty]

\* reference entries of the generated payloads: two keys, and a second entry of
\* the first key on another page whose No is the string "1"
RefEntries ==
    {Ref(Num(1), Num(1), CodeA), Ref(Num(2), Num(2), CodeA),
     Ref(Num(3), Str(<<"1">>), CodeA)}

\* (GW, GH, Qty) of the generated glass entries
Measurements ==
    {<<Undefined, Undefined, Undefined>>,
     <<Str(<<>>), Undefined, Str(<<>>)>>,
     <<Undefined, Undefined, Num(0)>>,
     <<Undefined, Undefined, Str(<<"0">>)>>,
     <<Str(<<"1", "0">>), Str(<<"2", "0">>), Str(<<"3">>)>>,
     <<Str(<<"1", "0">>), Undefined, Str(<<"a", "b", "c">>)>>,
     <<Num(0), Str(<<"2", "0">>), Num(2)>>,
     <<Undefined, Num(5), Str(<<" ", "1", "2", "x">>)>>}

\* the glass entries of the generated payloads: every measurement under the
\* first key, a complete entry and a zero-only entry under the second
GlassEntries ==
    {Glass(Num(1), CodeA, m[1], m[2], m[3]) : m \in Measurements}
    \cup {Glass(Num(2), CodeA, Str(<<"1", "0">>), Str(<<"2", "0">>), Str(<<"3">>)),
          Glass(Num(2), CodeA, Undefined, Undefined, Num(0))}

SeqsUpTo(S, n) == UNION {[1..k -> S] : k \in 0..n}

OptionalArrays(S, n) == {NoArray} \cup {Array(items) : items \in SeqsUpTo(S, n)}

TotalReferences == {Num(1), Num(7)}

\* the payloads displayResults is applied to on its own
Payloads ==
    {Data(refs, glass, total, NoMessages) :
        refs \in OptionalArrays(RefEntries, MaxRefs),
        glass \in OptionalArrays(GlassEntries, MaxGlass),
        total \in TotalReferences}

(***************************************************************************)
(* State.                                                                  *)
(***************************************************************************)
VARIABLES
    files,            \* fileInput.files[0].name, "" when fileInput.files is empty
    uploadArea,       \* the file name uploadArea.innerHTML shows, "" for the prompt
    processBtn,       \* processBtn.disabled
    loading,          \* loading.style.display is 'block'
    errorMessage,     \* [display, textContent]
    successMessage,   \* [display, textContent]
    resultsSection,   \* resultsSection.style.display is 'block'
    downloadSection,  \* downloadSection.style.display is 'block'
    productInfo,      \* [display, innerHTML]: the messages of the <p> elements
    summarySection,   \* summarySection.style.display is 'block'
    totalGlass,       \* totalGlass.textContent
    totalRecords,     \* totalRecords.textContent
    totalReferences,  \* totalReferences.textContent
    referenceData,    \* referenceData.innerHTML: [kind, rows]
    handlers,         \* the invocations of the submit handler: [pc, ok]
    submitted,        \* number of submit events dispatched so far
    finished,         \* the invocation that ended in the last step, with its response
    data              \* the argument of the last call of displayResults

elements == <<summarySection, totalGlass, totalRecords, totalReferences, referenceData>>
page == <<files, uploadArea, processBtn, loading, errorMessage, successMessage,
          resultsSection, downloadSection, productInfo>>
vars == <<page, elements, handlers, submitted, finished, data>>

(***************************************************************************)
(* The responses of POST /upload.                                          *)
(***************************************************************************)
\* the literal of line 580
UnknownErrorText == <<"[unknown error]">>
\* the literal of line 586
ServerErrorText == <<"[server contact error]">>

\* the payloads a response of the page carries: the example of the
\* specification (one row), two rows of one reference, a reference without
\* glass data, and no reference_code at all
OneRow ==
    Data(Array(<<Ref(Num(1), Num(1), CodeA)>>),
         Array(<<Glass(Num(1), CodeA, Str(<<"1", "0">>), Str(<<"2", "0">>), Str(<<"3">>))>>),
         Num(1), NoMessages)
TwoRows ==
    Data(Array(<<Ref(Num(1), Num(1), CodeA)>>),
         Array(<<Glass(Num(1), CodeA, Str(<<"1", "0">>), Str(<<"2", "0">>), Str(<<"3">>)),
                 Glass(Num(1), CodeA, Undefined, Undefined, Str(<<"4">>))>>),
         Num(7), [t |-> "array", items |-> <<<<"m">>>>])
NoGlassData ==
    Data(Array(<<Ref(Num(1), Num(1), CodeA)>>),
         Array(<<Glass(Num(1), CodeA, Undefined, Undefined, Undefined)>>),
         Num(1), NoMessages)
NoReferences == Data(NoArray, NoArray, Num(0), NoMessages)
\* product_messages is a string: it has a length and no map method
BadMessages ==
    [OneRow EXCEPT !.product_messages = [t |-> "string", items |-> <<<<"m">>>>]]

ResponseData == {NoData, OneRow, TwoRows, NoGlassData, NoReferences, BadMessages}

Body(kind, success, error, message, d) ==
    [kind |-> kind, success |-> success, error |-> error, message |-> message, data |-> d]

\* a body response.json() rejects, and the JSON text `null`
NoBody == Body("unparsable", FALSE, Undefined, Undefined, NoData)
NullBody == Body("null", FALSE, Undefined, Undefined, NoData)

MessageOf(d) == IF d = TwoRows THEN Str(<<"o", "k", "2">>) ELSE Str(<<"o", "k">>)

Bodies ==
    {NoBody, NullBody}
    \cup {Body("object", FALSE, e, Undefined, NoData) :
             e \in {Undefined, Str(<<>>), Str(<<"b", "a", "d">>)}}
    \cup {Body("object", TRUE, Undefined, MessageOf(d), d) : d \in ResponseData}

FileNames == {"a.pdf", "b.pdf"}
Ids == 1..MaxSubmits

NoFinished == [id |-> 0, rejected |-> FALSE, ok |-> FALSE, body |-> NoBody]
Idle == [pc |-> "idle", ok |-> FALSE]

(***************************************************************************)
(* The page as loaded: lines 411-467 and the style sheet (.loading,        *)
(* .message, .results-section and .download-section are display: none).    *)
(***************************************************************************)
PageLoaded ==
    /\ files = ""
    /\ uploadArea = ""
    /\ processBtn = FALSE
    /\ loading = FALSE
    /\ errorMessage = [display |-> FALSE, textContent |-> <<>>]
    /\ successMessage = [display |-> FALSE, textContent |-> <<>>]
    /\ resultsSection = FALSE
    /\ downloadSection = FALSE
    /\ productInfo = [display |-> FALSE, innerHTML |-> <<>>]
    /\ summarySection = FALSE
    /\ totalGlass = <<"0">>
    /\ totalRecords = <<"0">>
    /\ totalReferences = <<"0">>
    /\ referenceData = [kind |-> "initial", rows |-> <<>>]
    /\ handlers = [id \in Ids |-> Idle]
    /\ submitted = 0
    /\ finished = NoFinished

Init ==
    /\ PageLoaded
    /\ data = NoData

(***************************************************************************)
(* File selection, lines 503-527.                                          *)
(***************************************************************************)
\* updateFileStatus, with fileInput.files already set to `file`
UpdateFileStatus(file) ==
    IF file # ""
    THEN /\ uploadArea' = file
         /\ processBtn' = FALSE
    ELSE UNCHANGED <<uploadArea, processBtn>>

\* the change event of the file input: the user picked `file` in the dialog
ChangeFile(file) ==
    /\ files' = file
    /\ UpdateFileStatus(file)
    /\ finished' = NoFinished
    /\ UNCHANGED <<loading, errorMessage, successMessage, resultsSection,
                   downloadSection, productInfo, elements, handlers, submitted, data>>

\* the change event with an empty list: the user dismissed the dialog and the
\* browser dropped the selection
ClearFile ==
    /\ files # ""
    /\ files' = ""
    /\ UpdateFileStatus("")
    /\ finished' = NoFinished
    /\ UNCHANGED <<loading, errorMessage, successMessage, resultsSection,
                   downloadSection, productInfo, elements, handlers, submitted, data>>

\* handleDrop: `file` is dataTransfer.files[0].name, "" when nothing but
\* non-file content was dropped
HandleDrop(file) ==
    /\ IF file # ""
       THEN /\ files' = file
            /\ UpdateFileStatus(file)
       ELSE UNCHANGED <<files, uploadArea, processBtn>>
    /\ finished' = NoFinished
    /\ UNCHANGED <<loading, errorMessage, successMessage, resultsSection,
                   downloadSection, productInfo, elements, handlers, submitted, data>>

(***************************************************************************)
(* The submit handler of #uploadForm, lines 529-592. One invocation runs   *)
(* from the submit event to `await fetch`, from the settling of fetch to   *)
(* `await response.json()`, and from the settling of json() to the end of  *)
(* the finally block; other events are handled in between.                 *)
(***************************************************************************)
\* the elements displayResults writes, as they are now
Elements ==
    [summarySection |-> summarySection, totalGlass |-> totalGlass,
     totalRecords |-> totalRecords, totalReferences |-> totalReferences,
     referenceData |-> referenceData]

SetElements(els) ==
    /\ summarySection' = els.summarySection
    /\ totalGlass' = els.totalGlass
    /\ totalRecords' = els.totalRecords
    /\ totalReferences' = els.totalReferences
    /\ referenceData' = els.referenceData

\* the finally block, lines 588-591
Finally(id) ==
    /\ loading' = FALSE
    /\ processBtn' = (files = "")
    /\ handlers' = [handlers EXCEPT ![id] = [pc |-> "done", ok |-> FALSE]]

\* the catch block, lines 584-587
Caught == [display |-> TRUE, textContent |-> ServerErrorText]

\* ErrorShown with the fallback text shown whatever the body says
ErrorShownGeneric(result) ==
    [display |-> TRUE, textContent |-> UnknownErrorText]

\* the else branch, lines 579-581
ErrorShown(result) ==
    [display |-> TRUE, textContent |-> TextContent(Or(result.error, Str(UnknownErrorText)))]

\* The submit event: the button is enabled and the form is valid (the file
\* input is `required`). Lines 530-552, up to the call of fetch.
Submit ==
    /\ submitted < MaxSubmits
    /\ ~processBtn
    /\ files # ""
    /\ submitted' = submitted + 1
    /\ handlers' = [handlers EXCEPT ![submitted + 1] = [pc |-> "fetch", ok |-> FALSE]]
    /\ loading' = TRUE
    /\ errorMessage' = [errorMessage EXCEPT !.display = FALSE]
    /\ successMessage' = [successMessage EXCEPT !.display = FALSE]
    /\ resultsSection' = FALSE
    /\ downloadSection' = FALSE
    /\ processBtn' = TRUE
    /\ finished' = NoFinished
    /\ UNCHANGED <<files, uploadArea, productInfo, elements, data>>

\* fetch rejects (a network error): catch and finally
FetchRejected(id) ==
    /\ handlers[id].pc = "fetch"
    /\ errorMessage' = Caught
    /\ Finally(id)
    /\ finished' = [id |-> id, rejected |-> TRUE, ok |-> FALSE, body |-> NoBody]
    /\ UNCHANGED <<files, uploadArea, successMessage, resultsSection, downloadSection,
                   productInfo, elements, submitted, data>>

\* fetch resolves with a response whose status is 2xx (ok) or not
FetchResolved(id, ok) ==
    /\ handlers[id].pc = "fetch"
    /\ handlers' = [handlers EXCEPT ![id] = [pc |-> "json", ok |-> ok]]
    /\ finished' = NoFinished
    /\ UNCHANGED <<page, elements, submitted, data>>

\* response.json() settles with `result`: lines 554-591
JsonSettled(id, result) ==
    /\ handlers[id].pc = "json"
    /\ LET ok == handlers[id].ok
           \* json() rejects, or `result.success` is read from null
           noResult == result.kind # "object"
           success == ~noResult /\ ok /\ result.success
           \* displayResults(undefined) throws at line 602
           rendered == success /\ result.data.t # "undefined"
           msgs == result.data.product_messages
           \* a string has no map method: line 567 throws
           mapThrows == rendered /\ msgs.t = "string" /\ Len(msgs.items) > 0
           completed == rendered /\ ~mapThrows
           thrown == noResult \/ (success /\ ~rendered) \/ mapThrows
       IN  /\ IF rendered
              THEN SetElements(DisplayResults(result.data, Elements))
              ELSE UNCHANGED elements
           /\ data' = IF success THEN result.data ELSE data
           /\ successMessage' =
                 IF rendered
                 THEN [display |-> TRUE, textContent |-> TextContent(result.message)]
                 ELSE successMessage
           /\ productInfo' =
                 IF completed
                 THEN IF msgs.t # "undefined" /\ Len(msgs.items) > 0
                      THEN [display |-> TRUE, innerHTML |-> msgs.items]
                      ELSE [productInfo EXCEPT !.display = FALSE]
                 ELSE productInfo
           /\ resultsSection' = IF completed THEN TRUE ELSE resultsSection
           /\ downloadSection' = IF completed THEN TRUE ELSE downloadSection
           /\ errorMessage' =
                 IF thrown THEN Caught
                 ELSE IF success THEN errorMessage
                 ELSE ErrorShown(result)
           /\ finished' = [id |-> id, rejected |-> FALSE, ok |-> ok, body |-> result]
    /\ Finally(id)
    /\ UNCHANGED <<files, uploadArea, submitted>>

Next ==
    \/ \E file \in FileNames : ChangeFile(file)
    \/ ClearFile
    \/ \E file \in FileNames \cup {""} : HandleDrop(file)
    \/ Submit
    \/ \E id \in Ids : FetchRejected(id)
    \/ \E id \in Ids, ok \in BOOLEAN : FetchResolved(id, ok)
    \/ \E id \in Ids, result \in Bodies : JsonSettled(id, result)

Spec == Init /\ [][Next]_vars

\* every fetch and every json() settles
FairSpec ==
    /\ Spec
    /\ \A id \in Ids :
          /\ WF_vars(FetchRejected(id) \/ \E ok \in BOOLEAN : FetchResolved(id, ok))
          /\ WF_vars(\E result \in Bodies : JsonSettled(id, result))

(***************************************************************************)
(* displayResults on its own: the page as loaded and a payload of          *)
(* Payloads; the one step is the call displayResults(data).                *)
(***************************************************************************)
InitPayload ==
    /\ PageLoaded
    /\ data \in Payloads

Project ==
    /\ data.t = "object"
    /\ referenceData.kind = "initial"
    /\ SetElements(DisplayResults(data, Elements))
    /\ UNCHANGED <<page, handlers, submitted, finished, data>>

NextProject == Project

SpecProject == InitPayload /\ [][NextProject]_vars

(***************************************************************************)
(* Vocabulary of the properties of displayResults.                         *)
(***************************************************************************)
\* a value is present when the property exists and is not the empty string
Present(v) == v.t # "undefined" /\ ~(v.t = "string" /\ v.s = <<>>)

\* a glass entry has at least one non-empty measurement
HasMeasurement(glass) == Present(glass.GW) \/ Present(glass.GH) \/ Present(glass.Qty)

\* the glass entry shares the composite key of the reference entry
Matches(ref, glass) ==
    RefKey(ref.No, ref.Reference_Code) = RefKey(glass.ref_no, glass.ref_code)

RefItems == data.reference_code.items
GlassItems == data.glass_data.items

\* the matched glass entries of `ref` with a non-empty measurement, in
\* glass_data order
MeasuredGlass(ref) ==
    SelectSeq(GlassItems, LAMBDA glass : Matches(ref, glass) /\ HasMeasurement(glass))

\* the (reference, glass) pairs in emission order: references in
\* reference_code order, each with its measured glass entries
RECURSIVE EmissionOrder(_)
EmissionOrder(refs) ==
    IF refs = <<>> THEN <<>>
    ELSE LET ref == Head(refs)
             measured == MeasuredGlass(ref)
         IN  [k \in 1..Len(measured) |-> [ref |-> ref, glass |-> measured[k]]]
                \o EmissionOrder(Tail(refs))

Emitted == EmissionOrder(RefItems)

\* displayResults has run and drawn the table
TableDrawn == referenceData.kind = "table"
Rows == referenceData.rows

RECURSIVE SumQty(_)
SumQty(rows) ==
    IF rows = <<>> THEN 0
    ELSE ParseIntOrZero(Str(Head(rows).Qty)) + SumQty(Tail(rows))

\* what a measurement cell is to show: the value as given, a dash when missing
\* or empty
CellOf(v) == IF Present(v) THEN ToString(v) ELSE Dash

\* no entry of glass_data on which "has a non-empty measurement" and the
\* script's test `GW || GH || Qty` disagree
NoZeroOnlyEntry ==
    \A k \in 1..Len(GlassItems) :
        HasMeasurement(GlassItems[k]) <=> HasGlassData(GlassItems[k])

(***************************************************************************)
(* C5: whenever the table is drawn it has at least one row, the summary is *)
(* shown, totalRecords is the number of rows of the table, totalGlass is   *)
(* the sum over the rows of the integer parse of the Qty cell (a dash or a *)
(* non-numeric text counting 0), and totalReferences is the payload's      *)
(* total_references, whatever the other two totals are.                    *)
(***************************************************************************)
C5_SummaryTotals ==
    TableDrawn =>
        /\ Len(Rows) >= 1
        /\ summarySection
        /\ totalRecords = NumberToString(Len(Rows))
        /\ totalGlass = NumberToString(SumQty(Rows))
        /\ totalReferences = NumberToString(data.total_references.n)

\* two rows, one of them with a Qty that is no number and one with a Qty that
\* is, and a total_references that is neither the row count nor the number of
\* reference entries
C5_Witness ==
    /\ TableDrawn
    /\ Len(Rows) = 2
    /\ \E k \in 1..2 : Rows[k].Qty = <<"a", "b", "c">>
    /\ \E k \in 1..2 : Rows[k].Qty = <<" ", "1", "2", "x">>
    /\ totalGlass = <<"1", "2">>
    /\ totalReferences = <<"7">>
    /\ Len(RefItems) = 1

(***************************************************************************)
(* C6: whenever the table is drawn, its rows are exactly the emission      *)
(* order: for the references in reference_code order, the matched glass    *)
(* entries with a non-empty measurement in glass_data order, the k-th row  *)
(* carrying index k and its reference's page, No and Reference_Code; and   *)
(* a payload whose emission order is not empty draws the table.            *)
(***************************************************************************)
C6_RowSequence ==
    /\ TableDrawn =>
          /\ Len(Rows) = Len(Emitted)
          /\ \A k \in 1..Len(Rows) :
                Rows[k] = TableRow(k, Emitted[k].ref, Emitted[k].glass)
    /\ (referenceData.kind # "initial" /\ Emitted # <<>>) => TableDrawn

(***************************************************************************)
(* C7: after displayResults, a reference entry has a row in the output if  *)
(* and only if some glass entry sharing its composite key has a non-empty  *)
(* measurement among GW, GH and Qty (a number 0 and the string "0" are     *)
(* values, not absences); and every row comes from a matching pair whose   *)
(* glass entry has a non-empty measurement.                                *)
(***************************************************************************)
RowOfRef(row, ref) ==
    /\ row.page = ToString(ref.page)
    /\ row.No = ToString(ref.No)
    /\ row.Reference_Code = ToString(ref.Reference_Code)

C7_IncludedIffMeasured ==
    referenceData.kind # "initial" =>
        /\ \A i \in 1..Len(RefItems) :
              (\E k \in 1..Len(Rows) : RowOfRef(Rows[k], RefItems[i]))
                  <=> MeasuredGlass(RefItems[i]) # <<>>
        /\ \A k \in 1..Len(Rows) :
              \E i \in 1..Len(RefItems), j \in 1..Len(GlassItems) :
                  /\ Matches(RefItems[i], GlassItems[j])
                  /\ HasMeasurement(GlassItems[j])
                  /\ Rows[k] = TableRow(k, RefItems[i], GlassItems[j])

(***************************************************************************)
(* C8: after displayResults, the "no data" placeholder is shown exactly    *)
(* for a payload with no (or an empty) reference_code, the "no complete    *)
(* GLASS data" placeholder exactly for a payload with reference entries    *)
(* none of which has a matched glass entry with a non-empty measurement;   *)
(* under either placeholder the summary is hidden, there is no row and no  *)
(* total is written.                                                       *)
(***************************************************************************)
C8_Placeholders ==
    referenceData.kind # "initial" =>
        /\ referenceData.kind = "noData" <=> RefItems = <<>>
        /\ referenceData.kind = "noGlass" <=> (RefItems # <<>> /\ Emitted = <<>>)
        /\ referenceData.kind \in {"noData", "noGlass"} =>
              /\ ~summarySection
              /\ Rows = <<>>
              /\ totalGlass = <<"0">> /\ totalRecords = <<"0">> /\ totalReferences = <<"0">>

(***************************************************************************)
(* C9: in a drawn table, each measurement cell of a row shows the value of *)
(* the glass entry the row comes from, as given, when that value is        *)
(* present, and the dash only when it is missing or empty. Stated for the  *)
(* payloads on which the rows and the emission order are the same entries. *)
(***************************************************************************)
C9_CellsAsGiven ==
    (TableDrawn /\ NoZeroOnlyEntry) =>
        \A k \in 1..Len(Rows) :
            k <= Len(Emitted) =>
                /\ Rows[k].GW = CellOf(Emitted[k].glass.GW)
                /\ Rows[k].GH = CellOf(Emitted[k].glass.GH)
                /\ Rows[k].Qty = CellOf(Emitted[k].glass.Qty)

(***************************************************************************)
(* Vocabulary of the properties of the submit handler.                     *)
(***************************************************************************)
\* the invocations whose network call (fetch, then json()) is pending
InFlight == {id \in Ids : handlers[id].pc \in {"fetch", "json"}}

\* an invocation reached the end of its finally block in the last step
JustEnded == finished.id # 0

\* its response was parsed into an object
Parsed == ~finished.rejected /\ finished.body.kind = "object"

\* it ended in failure: a network exception, a non-2xx status, a body that is
\* no JSON object, or success false
EndedInFailure ==
    /\ JustEnded
    /\ \/ finished.rejected
       \/ ~finished.ok
       \/ ~Parsed
       \/ ~finished.body.success

\* an HTTP or network failure: a network exception or a non-2xx status
HttpFailure == JustEnded /\ (finished.rejected \/ ~finished.ok)

\* an application-level failure: a parsed response with success false
ApplicationFailure == JustEnded /\ Parsed /\ ~finished.body.success

\* the text the else branch is to show for a parsed body: the error string
\* when present and not empty, the fallback otherwise
ErrorTextOf(body) == IF Present(body.error) THEN ToString(body.error) ELSE UnknownErrorText

(***************************************************************************)
(* C1: at most one upload request is in flight at any time, under every    *)
(* interleaving of file selections, drops and submits with the pending     *)
(* request.                                                                *)
(***************************************************************************)
C1_OneInFlight == Cardinality(InFlight) <= 1

(***************************************************************************)
(* C2: when a submission has ended in failure, resultsSection is hidden    *)
(* in the state its handler ends in.                                       *)
(***************************************************************************)
C2_FailureHidesResults == EndedInFailure => ~resultsSection

(***************************************************************************)
(* C3, as stated: after an HTTP or network failure the error region shows  *)
(* one of the page's two generic messages, never a text of the server.     *)
(***************************************************************************)
C3_HttpFailureGeneric ==
    HttpFailure =>
        /\ errorMessage.display
        /\ errorMessage.textContent \in {ServerErrorText, UnknownErrorText}

(***************************************************************************)
(* C3, amended: after an HTTP or network failure the error region is       *)
(* shown; its text is the server-contact message when fetch threw or the   *)
(* body is no JSON object, and otherwise, for a non-2xx response with a    *)
(* parsed body, the body's error string when it is present and not empty   *)
(* and the unknown-error fallback when it is not.                          *)
(***************************************************************************)
C3_HttpFailureText ==
    HttpFailure =>
        /\ errorMessage.display
        /\ errorMessage.textContent =
              IF Parsed THEN ErrorTextOf(finished.body) ELSE ServerErrorText

\* a non-2xx response whose body carries an error string, which is shown
C3_Witness ==
    /\ HttpFailure
    /\ Parsed
    /\ finished.body.error = Str(<<"b", "a", "d">>)
    /\ errorMessage.display
    /\ errorMessage.textContent = <<"b", "a", "d">>

(***************************************************************************)
(* C4: after an application-level failure the error region shows the       *)
(* server's error string when it is present and not empty and the fallback *)
(* when it is absent, and the success message, the results region and the  *)
(* download region are hidden.                                             *)
(***************************************************************************)
C4_ApplicationFailure ==
    ApplicationFailure =>
        /\ errorMessage.display
        /\ errorMessage.textContent = ErrorTextOf(finished.body)
        /\ ~successMessage.display
        /\ ~resultsSection
        /\ ~downloadSection

(***************************************************************************)
(* C10: every submission whose network call is pending reaches the end of  *)
(* its handler; at that end the loading indicator is hidden and the submit *)
(* control is enabled exactly when a file is selected; and while a call is *)
(* pending the loading indicator is shown and the error message, the       *)
(* success message, the results region and the download region are hidden. *)
(***************************************************************************)
ResetAtEnd == JustEnded => (~loading /\ (processBtn <=> files = ""))

QuietWhilePending ==
    InFlight # {} =>
        /\ loading
        /\ ~errorMessage.display
        /\ ~successMessage.display
        /\ ~resultsSection
        /\ ~downloadSection

C10_CompletesAndResets ==
    /\ [](ResetAtEnd /\ QuietWhilePending)
    /\ \A id \in Ids : (id \in InFlight) ~> (handlers[id].pc = "done")

(***************************************************************************)
(* C11: nothing derived from one response persists into the next           *)
(* submission. The step that starts a submission leaves the success        *)
(* message, the results region (table and summary), the product-info       *)
(* messages and the download links hidden; and in the state a submission's *)
(* handler ends in, whatever of these is visible was produced from that    *)
(* submission's own response.                                              *)
(***************************************************************************)
\* no content of a response is visible
NothingShown ==
    /\ ~successMessage.display
    /\ ~resultsSection
    /\ ~downloadSection
    /\ ~productInfo.display

\* the invocation that just ended received a success response with a payload
LatestSucceeded ==
    /\ JustEnded
    /\ Parsed
    /\ finished.ok
    /\ finished.body.success
    /\ finished.body.data.t = "object"

\* whatever is visible was produced from the response of the invocation that
\* just ended
FromLatestResponse ==
    /\ successMessage.display =>
          /\ LatestSucceeded
          /\ successMessage.textContent = TextContent(finished.body.message)
    /\ productInfo.display =>
          /\ LatestSucceeded
          /\ productInfo.innerHTML = finished.body.data.product_messages.items
    /\ resultsSection =>
          /\ LatestSucceeded
          /\ Elements = DisplayResults(finished.body.data, Elements)
    /\ downloadSection => LatestSucceeded

C11_NothingPersists ==
    /\ [][Submit => NothingShown']_vars
    /\ [](JustEnded => FromLatestResponse)

(***************************************************************************)
(* displayResults on payloads whose key fields may contain the separator:  *)
(* No and ref_no are "1" or "1-A" (or the number 1), Reference_Code and    *)
(* ref_code are "A", "B" or "A-B". ("1", "A-B") and ("1-A", "B") have the  *)
(* same composite key "1-A-B".                                             *)
(***************************************************************************)
JoinNos == {Str(<<"1">>), Str(<<"1", "-", "A">>)}
JoinCodes == {Str(<<"A">>), Str(<<"B">>), Str(<<"A", "-", "B">>)}

JoinRefEntries == {Ref(Num(1), no, code) : no \in JoinNos, code \in JoinCodes}

JoinGlassEntries ==
    {Glass(no, code, Str(<<"1", "0">>), Str(<<"2", "0">>), Str(<<"3">>)) :
        no \in JoinNos, code \in JoinCodes}
    \cup {Glass(Num(1), Str(<<"B">>), Str(<<"1", "0">>), Undefined, Undefined),
          Glass(Str(<<"1", "-", "A">>), Str(<<"B">>), Undefined, Undefined, Undefined)}

JoinPayloads ==
    {Data(Array(refs), Array(glass), Num(1), NoMessages) :
        refs \in SeqsUpTo(JoinRefEntries, MaxRefs),
        glass \in SeqsUpTo(JoinGlassEntries, MaxGlass)}

InitJoin ==
    /\ PageLoaded
    /\ data \in JoinPayloads

SpecJoin == InitJoin /\ [][NextProject]_vars

(***************************************************************************)
(* Vocabulary of the join.                                                 *)
(***************************************************************************)
\* a + "-" + b
KeyString(a, b) == ToString(a) \o Dash \o ToString(b)

\* the key string of the glass entry equals the key string of the reference
Joined(ref, glass) ==
    KeyString(glass.ref_no, glass.ref_code) = KeyString(ref.No, ref.Reference_Code)

\* the two fields are equal, one by one, as strings
FieldwiseEqual(ref, glass) ==
    /\ ToString(glass.ref_no) = ToString(ref.No)
    /\ ToString(glass.ref_code) = ToString(ref.Reference_Code)

HasDash(v) == \E k \in 1..Len(ToString(v)) : ToString(v)[k] = "-"

NoDashIn(ref, glass) ==
    /\ ~HasDash(ref.No) /\ ~HasDash(ref.Reference_Code)
    /\ ~HasDash(glass.ref_no) /\ ~HasDash(glass.ref_code)

\* the glass entries joined to `ref` that pass the script's measurement test,
\* in glass_data order
JoinedGlass(ref) ==
    SelectSeq(GlassItems, LAMBDA glass : Joined(ref, glass) /\ HasGlassData(glass))

RECURSIVE JoinOrder(_)
JoinOrder(refs) ==
    IF refs = <<>> THEN <<>>
    ELSE LET ref == Head(refs)
             joined == JoinedGlass(ref)
         IN  [k \in 1..Len(joined) |-> [ref |-> ref, glass |-> joined[k]]]
                \o JoinOrder(Tail(refs))

(***************************************************************************)
(* C12: after displayResults, the rows are exactly, for the references in  *)
(* order, the glass entries (among those passing the measurement test)     *)
(* whose key string ref_no + "-" + ref_code equals the reference's key     *)
(* string No + "-" + Reference_Code: a glass entry is emitted under a      *)
(* reference exactly when the two strings are equal. And for every         *)
(* reference and glass entry none of whose four fields contains "-", the   *)
(* key strings are equal exactly when the fields are equal one by one as   *)
(* strings.                                                                *)
(***************************************************************************)
C12_JoinOnKeyString ==
    /\ referenceData.kind # "initial" =>
          LET joined == JoinOrder(RefItems)
          IN  /\ TableDrawn <=> joined # <<>>
              /\ Len(Rows) = Len(joined)
              /\ \A k \in 1..Len(Rows) :
                    Rows[k] = TableRow(k, joined[k].ref, joined[k].glass)
    /\ \A i \in 1..Len(RefItems), j \in 1..Len(GlassItems) :
          NoDashIn(RefItems[i], GlassItems[j]) =>
              (Joined(RefItems[i], GlassItems[j])
                  <=> FieldwiseEqual(RefItems[i], GlassItems[j]))

\* a collision: the one glass entry is emitted under the one reference entry,
\* whose (No, Reference_Code) differs from its (ref_no, ref_code)
C12_Witness ==
    /\ TableDrawn
    /\ Len(RefItems) = 1 /\ Len(GlassItems) = 1 /\ Len(Rows) = 1
    /\ Rows[1] = TableRow(1, RefItems[1], GlassItems[1])
    /\ ~FieldwiseEqual(RefItems[1], GlassItems[1])
    /\ HasDash(RefItems[1].No) \/ HasDash(RefItems[1].Reference_Code)

(***************************************************************************)
(* C13: in every reachable state the error message and the success message *)
(* are not both visible, and the results region and the download region    *)
(* are visible only while the success message is visible and no request is *)
(* pending.                                                                *)
(***************************************************************************)
C13_VisibilityInvariant ==
    /\ ~(errorMessage.display /\ successMessage.display)
    /\ (resultsSection \/ downloadSection) =>
          (successMessage.display /\ InFlight = {})

====
